---- MODULE Spec2Model ----
(***************************************************************************)
(* Model of the network diagnostics adapter of homeops-mcp                 *)
(* (src/homeops_mcp/adapters/network_adapter.py): host validation, the     *)
(* ping / dns_lookup / traceroute calls and the two output parsers.        *)
(*                                                                         *)
(* Text is a sequence of one-character strings, so that the regular        *)
(* expressions of the source are computed character by character.          *)
(* Floating point values are kept in thousandths (1.23 is 1230).           *)
(***************************************************************************)
EXTENDS Integers, Sequences, FiniteSets, TLC

\* ------------------------------------------------------------------------
\* Bounds of the model
\* ------------------------------------------------------------------------
MaxHostLen == 2

MaxHopLines == 2

MaxInfos == 2

\* ------------------------------------------------------------------------
\* Characters and numbers
\* ------------------------------------------------------------------------
DigitSeq == <<"0","1","2","3","4","5","6","7","8","9">>

Digits == {DigitSeq[i] : i \in 1..Len(DigitSeq)}

Letters ==
  {"a","b","c","d","e","f","g","h","i","j","k","l","m",
   "n","o","p","q","r","s","t","u","v","w","x","y","z",
   "A","B","C","D","E","F","G","H","I","J","K","L","M",
   "N","O","P","Q","R","S","T","U","V","W","X","Y","Z"}

\* the character class [a-zA-Z0-9._-] of _VALID_HOST_RE
HostClass == Letters \cup Digits \cup {".", "_", "-"}

\* the characters \s matches (ASCII)
Whitespace == {" ", "\t", "\n", "\r", "\f"}

Scale == 10 * 10 * 10

Min(S) == CHOOSE x \in S : \A y \in S : x <= y

Max(S) == CHOOSE x \in S : \A y \in S : x >= y

DigitVal(c) == (CHOOSE i \in 1..Len(DigitSeq) : DigitSeq[i] = c) - 1

RECURSIVE Str(_)
\* str(n) of a non-negative int
Str(n) == IF n < 10 THEN <<DigitSeq[n + 1]>>
          ELSE Str(n \div 10) \o <<DigitSeq[(n % 10) + 1]>>

RECURSIVE ParseInt(_)
\* int(s) of a string of digits
ParseInt(s) == IF Len(s) = 0 THEN 0
               ELSE 10 * ParseInt(SubSeq(s, 1, Len(s) - 1)) + DigitVal(s[Len(s)])

\* first position of character c in s, 0 when there is none
IndexOf(s, c) ==
  LET S == {i \in 1..Len(s) : s[i] = c}
  IN  IF S = {} THEN 0 ELSE Min(S)

\* float(s) of a string matched by \d+(?:\.\d+)?, in thousandths
ParseFloat(s) ==
  LET dot == IndexOf(s, ".")
  IN  IF dot = 0 THEN ParseInt(s) * Scale
      ELSE ParseInt(SubSeq(s, 1, dot - 1)) * Scale
           + ParseInt(SubSeq(SubSeq(s, dot + 1, Len(s)) \o <<"0","0","0">>, 1, 3))

\* the literal lit stands in s at position pos
StartsWithAt(s, pos, lit) ==
  /\ pos >= 1
  /\ pos + Len(lit) - 1 <= Len(s)
  /\ \A i \in 1..Len(lit) : s[pos + i - 1] = lit[i]

RECURSIVE RunLen(_, _, _)
\* length of the longest run of characters of class cls starting at pos
\* (what a greedy cls* consumes)
RunLen(s, pos, cls) == IF pos > Len(s) \/ s[pos] \notin cls THEN 0
                       ELSE 1 + RunLen(s, pos + 1, cls)

\* \d+(?:\.\d+)? at pos: the position after the match, 0 when it fails
NumEnd(s, pos) ==
  LET n == RunLen(s, pos, Digits)
      p == pos + n
      f == IF p <= Len(s) /\ s[p] = "." THEN RunLen(s, p + 1, Digits) ELSE 0
  IN  IF n = 0 THEN 0 ELSE IF f > 0 THEN p + 1 + f ELSE p

\* ------------------------------------------------------------------------
\* Host validation
\* ------------------------------------------------------------------------

\* Python's $ : at the end of the string, or before a newline that ends it
AtDollar(s, pos) ==
  \/ pos = Len(s) + 1
  \/ pos = Len(s) /\ s[pos] = "\n"

\* _VALID_HOST_RE.match(host):  ^[a-zA-Z0-9._-]+$
VALID_HOST_RE_match(host) ==
  LET n == RunLen(host, 1, HostClass)
  IN  n >= 1 /\ AtDollar(host, n + 1)

\* _validate_host(host) returns (TRUE) or raises HTTPException 400 (FALSE)
validate_host(host) == VALID_HOST_RE_match(host)

\* ------------------------------------------------------------------------
\* Mock helpers
\* ------------------------------------------------------------------------

\* canned data for the default count only
mock_ping_default(host, count) ==
  [host |-> host,
   packets_sent |-> 4,
   packets_received |-> 4,
   packet_loss_percent |-> 0,
   avg_latency_ms |-> 1230,
   min_latency_ms |-> 890,
   max_latency_ms |-> 2150]

\* NetworkAdapter._mock_ping
mock_ping(host, count) ==
  [host |-> host,
   packets_sent |-> count,
   packets_received |-> count,
   packet_loss_percent |-> 0,
   avg_latency_ms |-> 1230,
   min_latency_ms |-> 890,
   max_latency_ms |-> 2150]

\* NetworkAdapter._mock_dns_lookup
mock_dns_lookup(hostname, record_type) ==
  [hostname |-> hostname,
   record_type |-> record_type,
   addresses |-> << <<"9","3",".","1","8","4",".","2","1","6",".","3","4">> >>]

\* canned hops ending at a fixed address
mock_traceroute_fixed(host, max_hops) ==
  [host |-> host,
   max_hops |-> max_hops,
   hops |-> << [hop |-> 1, ip |-> <<"1","9","2",".","1","6","8",".","1",".","1">>,
                latency_ms |-> 1200],
               [hop |-> 2, ip |-> <<"1","0",".","0",".","0",".","1">>,
                latency_ms |-> 5400],
               [hop |-> 3, ip |-> <<"9","3",".","1","8","4",".","2","1","6",".","3","4">>,
                latency_ms |-> 12800] >>]

\* NetworkAdapter._mock_traceroute
mock_traceroute(host, max_hops) ==
  [host |-> host,
   max_hops |-> max_hops,
   hops |-> << [hop |-> 1, ip |-> <<"1","9","2",".","1","6","8",".","1",".","1">>,
                latency_ms |-> 1200],
               [hop |-> 2, ip |-> <<"1","0",".","0",".","0",".","1">>,
                latency_ms |-> 5400],
               [hop |-> 3, ip |-> host, latency_ms |-> 12800] >>]

\* ------------------------------------------------------------------------
\* Ping output parser
\* ------------------------------------------------------------------------
LitTransmitted ==
  <<" ","p","a","c","k","e","t","s"," ","t","r","a","n","s","m","i","t","t","e","d",","," ">>

LitPackets == <<"p","a","c","k","e","t","s"," ">>

LitReceived == <<"r","e","c","e","i","v","e","d">>

LitPacketLoss == <<"%"," ","p","a","c","k","e","t"," ","l","o","s","s">>

LitMinAvgMax == <<"m","i","n","/","a","v","g","/","m","a","x">>

NoMatch == [matched |-> FALSE]

\* (\d+(?:\.\d+)?)% packet loss  at position q
LossAt(s, q) == NumEnd(s, q) # 0 /\ StartsWithAt(s, NumEnd(s, q), LitPacketLoss)

\* the lazy .*? before the loss group: the first position from q on where
\* the loss group matches, skipping no newline; 0 when there is none
LossPos(s, q) ==
  LET S == {k \in q..Len(s) : LossAt(s, k)}
      m == Min(S)
  IN  IF S = {} THEN 0
      ELSE IF \E k \in q..(m - 1) : s[k] = "\n" THEN 0
      ELSE m

\* the packet loss pattern tried at start position i:
\* (\d+) packets transmitted, (\d+) (?:packets )?received.*?(\d+(?:\.\d+)?)% packet loss
LossMatchAt(s, i) ==
  LET n1 == RunLen(s, i, Digits)
      p1 == i + n1
      p2 == p1 + Len(LitTransmitted)
      n2 == RunLen(s, p2, Digits)
      p3 == p2 + n2
      p4 == p3 + 1
      p5 == IF StartsWithAt(s, p4, LitPackets \o LitReceived)
            THEN p4 + Len(LitPackets) + Len(LitReceived)
            ELSE IF StartsWithAt(s, p4, LitReceived)
            THEN p4 + Len(LitReceived)
            ELSE 0
      q  == IF p5 = 0 THEN 0 ELSE LossPos(s, p5)
  IN  IF /\ n1 > 0
         /\ StartsWithAt(s, p1, LitTransmitted)
         /\ n2 > 0
         /\ StartsWithAt(s, p3, <<" ">>)
         /\ p5 # 0
         /\ q # 0
      THEN [matched |-> TRUE,
            g1 |-> SubSeq(s, i, p1 - 1),
            g2 |-> SubSeq(s, p2, p3 - 1),
            g3 |-> SubSeq(s, q, NumEnd(s, q) - 1)]
      ELSE NoMatch

\* re.search of the packet loss pattern: the match at the leftmost start
LossSearch(s) ==
  LET S == {i \in 1..Len(s) : LossMatchAt(s, i).matched}
  IN  IF S = {} THEN NoMatch ELSE LossMatchAt(s, Min(S))

\* start of the last occurrence of lit in s, else 0
LastOcc(s, lit) ==
  LET S == {i \in 1..Len(s) : StartsWithAt(s, i, lit)}
  IN  IF S = {} THEN 0 ELSE Max(S)

\* output.split("min/avg/max")[-1] if "min/avg/max" in output else ""
AfterMinAvgMax(output) ==
  LET i == LastOcc(output, LitMinAvgMax)
  IN  IF i = 0 THEN <<>>
      ELSE SubSeq(output, i + Len(LitMinAvgMax), Len(output))

\* (\d+(?:\.\d+)?)/(\d+(?:\.\d+)?)/(\d+(?:\.\d+)?)  tried at position i
RttMatchAt(t, i) ==
  LET e1 == NumEnd(t, i)
      e2 == IF e1 # 0 /\ StartsWithAt(t, e1, <<"/">>) THEN NumEnd(t, e1 + 1) ELSE 0
      e3 == IF e2 # 0 /\ StartsWithAt(t, e2, <<"/">>) THEN NumEnd(t, e2 + 1) ELSE 0
  IN  IF e3 # 0
      THEN [matched |-> TRUE,
            g1 |-> SubSeq(t, i, e1 - 1),
            g2 |-> SubSeq(t, e1 + 1, e2 - 1),
            g3 |-> SubSeq(t, e2 + 1, e3 - 1)]
      ELSE NoMatch

\* re.search of the rtt triple: the match at the leftmost start
RttSearch(t) ==
  LET S == {i \in 1..Len(t) : RttMatchAt(t, i).matched}
  IN  IF S = {} THEN NoMatch ELSE RttMatchAt(t, Min(S))

\* a result dict that starts from zero in every numeric field
PingDefaults_zero(host, count) ==
  [host |-> host,
   packets_sent |-> 0,
   packets_received |-> 0,
   packet_loss_percent |-> 0,
   avg_latency_ms |-> 0,
   min_latency_ms |-> 0,
   max_latency_ms |-> 0]

\* the result dict _parse_ping_output starts from
PingDefaults(host, count) ==
  [host |-> host,
   packets_sent |-> count,
   packets_received |-> 0,
   packet_loss_percent |-> 100 * Scale,
   avg_latency_ms |-> 0,
   min_latency_ms |-> 0,
   max_latency_ms |-> 0]

\* the loss kept per mille instead of per cent
ApplyLoss_permille(result, m) ==
  [result EXCEPT !.packets_sent = ParseInt(m.g1),
                 !.packets_received = ParseInt(m.g2),
                 !.packet_loss_percent = ParseFloat(m.g3) * 10]

\* the assignments made under "if loss_match:"
ApplyLoss(result, m) ==
  [result EXCEPT !.packets_sent = ParseInt(m.g1),
                 !.packets_received = ParseInt(m.g2),
                 !.packet_loss_percent = ParseFloat(m.g3)]

\* the rtt groups read in the order avg/min/max
ApplyRtt_swapped(result, m) ==
  [result EXCEPT !.avg_latency_ms = ParseFloat(m.g1),
                 !.min_latency_ms = ParseFloat(m.g2),
                 !.max_latency_ms = ParseFloat(m.g3)]

\* the assignments made under "if rtt_match:"
ApplyRtt(result, m) ==
  [result EXCEPT !.min_latency_ms = ParseFloat(m.g1),
                 !.avg_latency_ms = ParseFloat(m.g2),
                 !.max_latency_ms = ParseFloat(m.g3)]

\* NetworkAdapter._parse_ping_output
parse_ping_output(host, count, output) ==
  LET loss_match == LossSearch(output)
      rtt_match  == RttSearch(AfterMinAvgMax(output))
      r0 == PingDefaults(host, count)
      r1 == IF loss_match.matched THEN ApplyLoss(r0, loss_match) ELSE r0
  IN  IF rtt_match.matched THEN ApplyRtt(r1, rtt_match) ELSE r1

\* ------------------------------------------------------------------------
\* Traceroute output parser
\* ------------------------------------------------------------------------

\* the characters str.splitlines() breaks at (ASCII)
LineBreaks == {"\n", "\r", "\f"}

RECURSIVE RunLenNot(_, _, _)
\* length of the longest run of characters outside cls starting at pos
RunLenNot(s, pos, cls) == IF pos > Len(s) \/ s[pos] \in cls THEN 0
                          ELSE 1 + RunLenNot(s, pos + 1, cls)

\* str.strip()
Strip(s) ==
  LET a == RunLen(s, 1, Whitespace)
      b == CHOOSE k \in 0..Len(s) :
             /\ \A i \in (k + 1)..Len(s) : s[i] \in Whitespace
             /\ (k = 0 \/ s[k] \notin Whitespace)
  IN  IF a >= Len(s) THEN <<>> ELSE SubSeq(s, a + 1, b)

RECURSIVE SplitLines(_)
\* str.splitlines()
SplitLines(s) ==
  IF Len(s) = 0 THEN <<>>
  ELSE LET n == RunLenNot(s, 1, LineBreaks)
           brk == IF n + 1 < Len(s) /\ s[n + 1] = "\r" /\ s[n + 2] = "\n"
                  THEN 2 ELSE 1
       IN  IF n = Len(s) THEN <<s>>
           ELSE <<SubSeq(s, 1, n)>> \o SplitLines(SubSeq(s, n + 1 + brk, Len(s)))

\* a group that did not take part in the match (None)
None == <<>>

RECURSIVE LastParen(_, _, _)
\* the greedy (\S+) followed by \) : the last ")" in lo..hi, 0 when none
LastParen(line, lo, hi) == IF hi < lo THEN 0
                           ELSE IF line[hi] = ")" THEN hi
                           ELSE LastParen(line, lo, hi - 1)

\* (?:(\d+(?:\.\d+)?)\s*ms)  at position pos: group 5, or None
LatencyAt(line, pos) ==
  LET e == NumEnd(line, pos)
      w == RunLen(line, e, Whitespace)
  IN  IF e # 0 /\ StartsWithAt(line, e + w, <<"m","s">>)
      THEN SubSeq(line, pos, e - 1)
      ELSE None

\* .*?(?:(\d+(?:\.\d+)?)\s*ms)?  after the address, at position pos.
\* The group is optional and ends the pattern, so the lazy .*? is done
\* after skipping no character: the group is tried at pos only.
hop_latency(line, pos) == LatencyAt(line, pos)

\* re.match of
\*   \s*(\d+)\s+(?:(\S+)\s+\((\S+)\)|(\*)).*?(?:(\d+(?:\.\d+)?)\s*ms)?
hop_match(line) ==
  LET p1 == 1 + RunLen(line, 1, Whitespace)
      n  == RunLen(line, p1, Digits)
      p2 == p1 + n
      w1 == RunLen(line, p2, Whitespace)
      p3 == p2 + w1
      \* first alternative: (\S+)\s+\((\S+)\)
      a  == RunLenNot(line, p3, Whitespace)
      p4 == p3 + a
      w2 == RunLen(line, p4, Whitespace)
      p5 == p4 + w2
      r  == RunLenNot(line, p5 + 1, Whitespace)
      j  == IF a > 0 /\ w2 > 0 /\ StartsWithAt(line, p5, <<"(">>)
            THEN LastParen(line, p5 + 2, p5 + r) ELSE 0
  IN  IF n = 0 \/ w1 = 0 THEN NoMatch
      ELSE IF j # 0
      THEN [matched |-> TRUE,
            g1 |-> SubSeq(line, p1, p2 - 1),
            g2 |-> SubSeq(line, p3, p4 - 1),
            g3 |-> SubSeq(line, p5 + 1, j - 1),
            g4 |-> None,
            g5 |-> hop_latency(line, j + 1)]
      ELSE IF StartsWithAt(line, p3, <<"*">>)
      THEN [matched |-> TRUE,
            g1 |-> SubSeq(line, p1, p2 - 1),
            g2 |-> None,
            g3 |-> None,
            g4 |-> <<"*">>,
            g5 |-> hop_latency(line, p3 + 1)]
      ELSE NoMatch

\* the hop_entry built from one matching line
hop_entry(m) ==
  LET hop_num == ParseInt(m.g1)
      ip == IF m.g3 # None THEN m.g3 ELSE m.g2
      e  == [hop |-> hop_num,
             ip |-> IF ip # None /\ ip # <<"*">> THEN ip ELSE <<"*">>]
  IN  IF m.g5 # None
      THEN [hop |-> e.hop, ip |-> e.ip, latency_ms |-> ParseFloat(m.g5)]
      ELSE e

RECURSIVE hops_of(_)
\* the loop over the lines: one entry per matching line, in order
hops_of(lines) ==
  IF Len(lines) = 0 THEN <<>>
  ELSE LET m == hop_match(Head(lines))
       IN  (IF m.matched THEN <<hop_entry(m)>> ELSE <<>>) \o hops_of(Tail(lines))

\* every line of the output, the first included
LinesAfterHeader_all(output) == SplitLines(Strip(output))

\* output.strip().splitlines()[1:]
LinesAfterHeader(output) ==
  LET lines == SplitLines(Strip(output))
  IN  IF Len(lines) = 0 THEN <<>> ELSE Tail(lines)

\* NetworkAdapter._parse_traceroute_output
parse_traceroute_output(host, max_hops, output) ==
  [host |-> host,
   max_hops |-> max_hops,
   hops |-> hops_of(LinesAfterHeader(output))]

\* ------------------------------------------------------------------------
\* What the external utilities and the resolver can answer
\* ------------------------------------------------------------------------
Absent == [present |-> FALSE]

\* a decimal as the utilities print it: whole, or with three decimals
DecText(m) ==
  IF m % Scale = 0 THEN Str(m \div Scale)
  ELSE Str(m \div Scale) \o <<".">>
       \o Str((m % Scale) \div 100) \o Str((m % 100) \div 10) \o Str(m % 10)

\* the statistics a ping run can report: sent, received, loss
PingStats ==
  {[present |-> TRUE, sent |-> x[1], recv |-> x[2], loss |-> x[3],
    packets_word |-> w, errors |-> e] :
     x \in {<<4, 4, 0>>, <<8, 7, 12500>>, <<14, 0, 100 * Scale>>},
     w \in BOOLEAN, e \in BOOLEAN}

\* the round trip times a ping run can report: min, avg, max, mdev
PingRtts ==
  {[present |-> TRUE, min |-> x[1], avg |-> x[2], max |-> x[3], mdev |-> x[4],
    bsd |-> b] :
     x \in {<<890, 1230, 2150, 420>>, <<12 * Scale, 20500, 31007, 5 * Scale>>},
     b \in BOOLEAN}

StatsLine(st) ==
  Str(st.sent) \o LitTransmitted \o Str(st.recv) \o <<" ">>
  \o (IF st.packets_word THEN LitPackets ELSE <<>>) \o LitReceived
  \o (IF st.errors THEN <<","," ","+","1"," ","e","r","r","o","r","s">> ELSE <<>>)
  \o <<",", " ">> \o DecText(st.loss) \o LitPacketLoss
  \o <<","," ","t","i","m","e"," ","3","0","0","4","m","s","\n">>

RttLine(rt) ==
  (IF rt.bsd THEN <<"r","o","u","n","d","-","t","r","i","p"," ">>
   ELSE <<"r","t","t"," ">>)
  \o LitMinAvgMax
  \o (IF rt.bsd THEN <<"/","s","t","d","d","e","v"," ","="," ">>
      ELSE <<"/","m","d","e","v"," ","="," ">>)
  \o DecText(rt.min) \o <<"/">> \o DecText(rt.avg) \o <<"/">>
  \o DecText(rt.max) \o <<"/">> \o DecText(rt.mdev) \o <<" ","m","s","\n">>

PingHeader ==
  <<"P","I","N","G"," ","a",":"," ","5","6"," ","d","a","t","a"," ","b","y","t","e","s","\n">>
  \o <<"6","4"," ","b","y","t","e","s"," ","f","r","o","m"," ","a",":"," ",
       "t","i","m","e","=","0",".","8","9","0"," ","m","s","\n">>

\* the text on stdout of a ping run
PingText(header, st, rt) ==
  (IF header THEN PingHeader ELSE <<>>)
  \o (IF st.present THEN StatsLine(st) ELSE <<>>)
  \o (IF rt.present THEN RttLine(rt) ELSE <<>>)

\* every way the awaited ping child can end
PingOutcomes ==
  {[kind |-> "exited", rc |-> rc, header |-> h, stats |-> st, rtt |-> rt,
    text |-> PingText(h, st, rt)] :
     rc \in {0, 1}, h \in BOOLEAN,
     st \in PingStats \cup {Absent}, rt \in PingRtts \cup {Absent}}
  \cup {[kind |-> "timeout"], [kind |-> "read_error"], [kind |-> "undecodable"]}

\* the lines a traceroute run can print for hop number n: every probe
\* answered, no probe answered, the first probe lost and a later one answered,
\* or a line that is no hop line
HopLines(n) ==
  {[kind |-> "addr", hop |-> n, ip |-> <<"1","0",".","0",".","0",".","1">>,
    latency |-> 1234,
    text |-> <<" ">> \o Str(n) \o <<" "," ","g","w"," ","(","1","0",".","0",".","0",".","1",")",
                                   " "," ","1",".","2","3","4"," ","m","s">>],
   [kind |-> "star", hop |-> n,
    text |-> <<" ">> \o Str(n) \o <<" "," ","*"," ","*"," ","*">>],
   [kind |-> "mixed", hop |-> n, ip |-> <<"1","0",".","0",".","0",".","1">>,
    latency |-> 1234,
    text |-> <<" ">> \o Str(n) \o <<" "," ","*"," ","g","w"," ","(","1","0",".","0",".","0",".","1",")",
                                   " "," ","1",".","2","3","4"," ","m","s">>],
   [kind |-> "junk", hop |-> n,
    text |-> <<"s","e","n","d",":"," ","e","r","r","o","r">>]}

\* the bodies a traceroute run can print: up to MaxHopLines lines
TracerouteBodies ==
  UNION {{b \in [1..k -> UNION {HopLines(n) : n \in 1..k}] :
            \A i \in 1..k : b[i].hop = i} : k \in 0..MaxHopLines}

RECURSIVE JoinLines(_)
JoinLines(b) == IF Len(b) = 0 THEN <<>>
                ELSE Head(b).text \o <<"\n">> \o JoinLines(Tail(b))

TracerouteHeader ==
  <<"t","r","a","c","e","r","o","u","t","e"," ","t","o"," ","a"," ",
    "(","1",".","1",".","1",".","1",")",","," ","3","0"," ","h","o","p","s"," ","m","a","x","\n">>

\* every way the awaited traceroute child can end
TracerouteOutcomes ==
  {[kind |-> "exited", rc |-> rc, header |-> h, body |-> b,
    text |-> (IF h THEN TracerouteHeader ELSE <<>>) \o JoinLines(b)] :
     rc \in {0, 1}, h \in BOOLEAN, b \in TracerouteBodies}
  \cup {[kind |-> "timeout"], [kind |-> "read_error"], [kind |-> "undecodable"]}

AF_INET == "AF_INET"

AF_INET6 == "AF_INET6"

\* the addresses of each family the resolver knows
FamilyAddrs(family) ==
  IF family = AF_INET6
  THEN {<<":",":","1">>, <<"2","0","0","1",":","d","b","8",":",":","1">>}
  ELSE {<<"1",".","1",".","1",".","1">>, <<"1","0",".","0",".","0",".","1">>,
        <<"9",".","9",".","9",".","9">>}

\* the hostname has an empty label, which the resolver call refuses with a
\* UnicodeError before any lookup
EmptyLabel(hostname) ==
  \/ Len(hostname) > 0 /\ hostname[1] = "."
  \/ \E i \in 1..(Len(hostname) - 1) : hostname[i] = "." /\ hostname[i + 1] = "."

\* every way socket.getaddrinfo(hostname, None, family, SOCK_STREAM) can end
ResolverOutcomes(hostname, family) ==
  IF EmptyLabel(hostname) THEN {[kind |-> "unicode_error"]}
  ELSE {[kind |-> "gaierror"]}
       \cup {[kind |-> "ok", infos |-> i] :
               i \in UNION {[1..k -> FamilyAddrs(family)] : k \in 1..MaxInfos}}

\* ------------------------------------------------------------------------
\* sorted({info[4][0] for info in infos})
\* ------------------------------------------------------------------------

\* the characters of addresses in code point order
CodeOrder ==
  <<".","0","1","2","3","4","5","6","7","8","9",":","a","b","c","d","e","f">>

CodePoint(c) == CHOOSE i \in 1..Len(CodeOrder) : CodeOrder[i] = c

RECURSIVE StrLess(_, _)
\* a < b for Python strings
StrLess(a, b) ==
  IF Len(b) = 0 THEN FALSE
  ELSE IF Len(a) = 0 THEN TRUE
  ELSE IF Head(a) # Head(b) THEN CodePoint(Head(a)) < CodePoint(Head(b))
  ELSE StrLess(Tail(a), Tail(b))

RECURSIVE Sorted(_)
\* sorted(S) of a set of strings
Sorted(S) ==
  IF S = {} THEN <<>>
  ELSE LET m == CHOOSE x \in S : \A y \in S \ {x} : StrLess(x, y)
       IN  <<m>> \o Sorted(S \ {m})

\* the addresses in the order and number the resolver gave them
dns_addresses_unsorted(infos) == infos

\* the addresses dns_lookup returns for the resolver's answer
dns_addresses(infos) == Sorted({infos[i] : i \in 1..Len(infos)})

\* the IPv4 family whatever the record type
dns_family_v4(record_type) == AF_INET

\* family = AF_INET6 if record_type == "AAAA" else AF_INET
dns_family(record_type) == IF record_type = "AAAA" THEN AF_INET6 ELSE AF_INET

\* ------------------------------------------------------------------------
\* The results of the except branches
\* ------------------------------------------------------------------------

\* the mock data handed out on timeout
ping_timeout_result_mock(host, count) == mock_ping(host, count)

\* ping: except asyncio.TimeoutError
ping_timeout_result(host, count) ==
  [host |-> host,
   packets_sent |-> count,
   packets_received |-> 0,
   packet_loss_percent |-> 100 * Scale,
   avg_latency_ms |-> 0,
   min_latency_ms |-> 0,
   max_latency_ms |-> 0]

\* the timeout result handed out for every failure
ping_error_result_loss(host, count) == ping_timeout_result(host, count)

\* ping: except Exception
ping_error_result(host, count) == mock_ping(host, count)

\* a child that exits with a non-zero status treated as a failure
ping_exited_result_rc(host, count, o) ==
  IF o.rc # 0 THEN mock_ping(host, count)
  ELSE parse_ping_output(host, count, o.text)

\* ping: the child exited; output = stdout.decode() is parsed, the exit
\* status is not read
ping_exited_result(host, count, o) == parse_ping_output(host, count, o.text)

\* traceroute: the child exited; output = stdout.decode() is parsed, the
\* exit status is not read
traceroute_exited_result(host, max_hops, o) ==
  parse_traceroute_output(host, max_hops, o.text)

\* the mock hops handed out on timeout
traceroute_timeout_result_mock(host, max_hops) == mock_traceroute(host, max_hops)

\* traceroute: except asyncio.TimeoutError
traceroute_timeout_result(host, max_hops) ==
  [host |-> host, max_hops |-> max_hops, hops |-> <<>>, error |-> "timeout"]

\* traceroute: except Exception
traceroute_error_result(host, max_hops) == mock_traceroute(host, max_hops)

\* dns_lookup: except socket.gaierror
dns_error_result(hostname, record_type) ==
  [hostname |-> hostname, record_type |-> record_type,
   addresses |-> <<>>, error |-> "gaierror"]

\* the exceptions the except clause of dns_lookup catches
dns_caught == {"gaierror"}

\* ------------------------------------------------------------------------
\* State
\* ------------------------------------------------------------------------
VARIABLES
  mock_mode,  \* NetworkAdapter.mock_mode
  pc,         \* where each call stands
  call,       \* the operation and the arguments of each call
  ext,        \* how the child process or the resolver of the call ended
  result,     \* the dict the call returned
  exc,        \* the exception the call raised to its caller
  events,     \* what the call did, in order
  obj,        \* the identity of the dict the call returned
  settings,   \* settings: MCP_ADMIN_KEY and the URLs and keys of the backends
  http,       \* the HTTP request being served and its response
  svc         \* the last Emby or CrowdSec operation, or status check, and its result

vars == <<mock_mode, pc, call, ext, result, exc, events, obj, settings, http, svc>>

CallIds == {1}

\* the worker threads of the loop's default executor, scaled down from
\* min(32, cpu_count + 4)
PoolSize == 1

\* enough concurrent calls to occupy every worker and queue one more
ConcCallIds == 1..(PoolSize + 1)

NoObj == 0

NoRequest == [path |-> "none"]

DefaultAdminKey == "changeme"

\* a setting that is None
Unset == [present |-> FALSE]

\* bool(v) of a setting of type str | None
Truthy(v) == v.present /\ v.value # ""

\* the defaults of the Settings class
DefaultSettings ==
  [MCP_ADMIN_KEY |-> DefaultAdminKey,
   EMBY_URL |-> Unset, EMBY_API_KEY |-> Unset,
   CROWDSEC_URL |-> Unset, CROWDSEC_API_KEY |-> Unset]

NoSvc == [op |-> "none"]

HostAlphabet == {"a", ".", "-", ";", " ", "$", "\n"}

\* the host arguments tried: every string up to MaxHostLen characters
Hosts == UNION {[1..k -> HostAlphabet] : k \in 0..MaxHostLen}

Counts == {1, 4}

MaxHopsArgs == {1, 20}

RecordTypes == {"A", "AAAA", "MX"}

NoCall == [op |-> "none"]

NoExt == [kind |-> "none"]

NoResult == [none |-> TRUE]

NoExc == "none"

InvalidHost == "HTTPException(400)"

Init ==
  /\ mock_mode \in BOOLEAN
  /\ pc = [c \in CallIds |-> "idle"]
  /\ call = [c \in CallIds |-> NoCall]
  /\ ext = [c \in CallIds |-> NoExt]
  /\ result = [c \in CallIds |-> NoResult]
  /\ exc = [c \in CallIds |-> NoExc]
  /\ events = [c \in CallIds |-> <<>>]
  /\ obj = [c \in CallIds |-> NoObj]
  /\ settings = DefaultSettings
  /\ http = NoRequest
  /\ svc = NoSvc

\* one adapter serving several calls at once
InitConc ==
  /\ mock_mode \in BOOLEAN
  /\ pc = [c \in ConcCallIds |-> "idle"]
  /\ call = [c \in ConcCallIds |-> NoCall]
  /\ ext = [c \in ConcCallIds |-> NoExt]
  /\ result = [c \in ConcCallIds |-> NoResult]
  /\ exc = [c \in ConcCallIds |-> NoExc]
  /\ events = [c \in ConcCallIds |-> <<>>]
  /\ obj = [c \in ConcCallIds |-> NoObj]
  /\ settings = DefaultSettings
  /\ http = NoRequest
  /\ svc = NoSvc

\* the mock switch read before the host is validated
entry_mockfirst(host, mock) ==
  IF mock THEN <<"mock">>
  ELSE IF ~validate_host(host) THEN <<"validate", "raise">>
  ELSE <<"validate", "real">>

\* the mock switch never read
entry_ignores_mock(host, mock) ==
  IF ~validate_host(host) THEN <<"validate", "raise">>
  ELSE <<"validate", "real">>

\* the first lines of ping, dns_lookup and traceroute:
\*   _validate_host(host); if self.mock_mode: return self._mock_...
entry(host, mock) ==
  IF ~validate_host(host) THEN <<"validate", "raise">>
  ELSE IF mock THEN <<"validate", "mock">>
  ELSE <<"validate", "real">>

\* the call raises e to its caller
Raise(c, e, evs) ==
  /\ pc' = [pc EXCEPT ![c] = "raised"]
  /\ exc' = [exc EXCEPT ![c] = e]
  /\ events' = [events EXCEPT ![c] = events[c] \o evs]
  /\ UNCHANGED <<result, obj>>

\* one dict kept by the adapter and handed to every caller
new_object_shared(objs) == 1

\* a dict display builds a new object, distinct from every live one
new_object(objs) ==
  Min({i \in 1..Cardinality(DOMAIN objs) : \A c \in DOMAIN objs : objs[c] # i})

\* the call returns r, a newly built dict, to its caller
Return(c, r, evs) ==
  /\ pc' = [pc EXCEPT ![c] = "returned"]
  /\ result' = [result EXCEPT ![c] = r]
  /\ obj' = [obj EXCEPT ![c] = new_object(obj)]
  /\ events' = [events EXCEPT ![c] = events[c] \o evs]
  /\ UNCHANGED exc

\* what a spawned child does: "running" exits by itself, "hanging" never does
ChildKinds == {"running", "hanging"}

\* a timeout left to the tool: it fires only if the child is going to exit
TimeoutCanFire_tool(child) == child = "running"

\* asyncio.wait_for(proc.communicate(), timeout=...): the timer belongs to
\* the caller and fires whatever the child does
TimeoutCanFire(child) == child \in ChildKinds

\* the ways communicate() can end for a child: output or a read error only
\* from a child that is active, the timeout from any child
communicate_enabled(o, child) ==
  IF o.kind = "timeout" THEN TimeoutCanFire(child) ELSE child = "running"

\* except asyncio.TimeoutError: the handler logs and returns; proc is neither
\* killed nor waited for, so the child stays as it was
child_after_timeout(child) == child

\* the child once communicate() has ended with o
child_after(o, child) ==
  IF o.kind \in {"exited", "undecodable"} THEN "exited"
  ELSE IF o.kind = "timeout" THEN child_after_timeout(child)
  ELSE child

\* NetworkAdapter.ping up to its first await of the child
Ping(c, host, count) ==
  /\ pc[c] = "idle"
  /\ call' = [call EXCEPT ![c] = [op |-> "ping", host |-> host, arg |-> count]]
  /\ UNCHANGED <<mock_mode, settings, http, svc>>
  /\ LET e == entry(host, mock_mode)
     IN  \/ /\ e[Len(e)] = "raise"
            /\ Raise(c, InvalidHost, SubSeq(e, 1, Len(e) - 1))
            /\ UNCHANGED ext
         \/ /\ e[Len(e)] = "mock"
            /\ Return(c, mock_ping(host, count), e)
            /\ UNCHANGED ext
         \/ /\ e[Len(e)] = "real"
            /\ \/ /\ pc' = [pc EXCEPT ![c] = "communicating"]
                  /\ events' = [events EXCEPT ![c] = SubSeq(e, 1, Len(e) - 1) \o <<"spawn">>]
                  /\ \E child \in ChildKinds :
                       ext' = [ext EXCEPT ![c] = [kind |-> "running", child |-> child]]
                  /\ UNCHANGED <<result, exc, obj>>
               \/ /\ Return(c, ping_error_result(host, count),
                            SubSeq(e, 1, Len(e) - 1) \o <<"spawn", "mock">>)
                  /\ ext' = [ext EXCEPT ![c] = [kind |-> "spawn_failed"]]

\* ping: proc.communicate() under wait_for(timeout=30.0), decode and parse
PingCommunicate(c, o) ==
  /\ pc[c] = "communicating"
  /\ call[c].op = "ping"
  /\ communicate_enabled(o, ext[c].child)
  /\ ext' = [ext EXCEPT ![c] = o @@ [child |-> child_after(o, ext[c].child)]]
  /\ UNCHANGED <<mock_mode, call, settings, http, svc>>
  /\ \/ /\ o.kind = "exited"
        /\ Return(c, ping_exited_result(call[c].host, call[c].arg, o), <<"parse">>)
     \/ /\ o.kind = "timeout"
        /\ Return(c, ping_timeout_result(call[c].host, call[c].arg), <<"timeout">>)
     \/ /\ o.kind \in {"read_error", "undecodable"}
        /\ Return(c, ping_error_result(call[c].host, call[c].arg), <<"mock">>)

\* NetworkAdapter.traceroute up to its first await of the child
Traceroute(c, host, max_hops) ==
  /\ pc[c] = "idle"
  /\ call' = [call EXCEPT ![c] = [op |-> "traceroute", host |-> host, arg |-> max_hops]]
  /\ UNCHANGED <<mock_mode, settings, http, svc>>
  /\ LET e == entry(host, mock_mode)
     IN  \/ /\ e[Len(e)] = "raise"
            /\ Raise(c, InvalidHost, SubSeq(e, 1, Len(e) - 1))
            /\ UNCHANGED ext
         \/ /\ e[Len(e)] = "mock"
            /\ Return(c, mock_traceroute(host, max_hops), e)
            /\ UNCHANGED ext
         \/ /\ e[Len(e)] = "real"
            /\ \/ /\ pc' = [pc EXCEPT ![c] = "communicating"]
                  /\ events' = [events EXCEPT ![c] = SubSeq(e, 1, Len(e) - 1) \o <<"spawn">>]
                  /\ \E child \in ChildKinds :
                       ext' = [ext EXCEPT ![c] = [kind |-> "running", child |-> child]]
                  /\ UNCHANGED <<result, exc, obj>>
               \/ /\ Return(c, traceroute_error_result(host, max_hops),
                            SubSeq(e, 1, Len(e) - 1) \o <<"spawn", "mock">>)
                  /\ ext' = [ext EXCEPT ![c] = [kind |-> "spawn_failed"]]

\* "traceroute -m max_hops host" prints no hop beyond max_hops
traceroute_prints(o, max_hops) == o.kind = "exited" => Len(o.body) <= max_hops

\* traceroute: proc.communicate() under wait_for(timeout=60.0), decode and parse
TracerouteCommunicate(c, o) ==
  /\ pc[c] = "communicating"
  /\ call[c].op = "traceroute"
  /\ traceroute_prints(o, call[c].arg)
  /\ communicate_enabled(o, ext[c].child)
  /\ ext' = [ext EXCEPT ![c] = o @@ [child |-> child_after(o, ext[c].child)]]
  /\ UNCHANGED <<mock_mode, call, settings, http, svc>>
  /\ \/ /\ o.kind = "exited"
        /\ Return(c, traceroute_exited_result(call[c].host, call[c].arg, o), <<"parse">>)
     \/ /\ o.kind = "timeout"
        /\ Return(c, traceroute_timeout_result(call[c].host, call[c].arg), <<"timeout">>)
     \/ /\ o.kind \in {"read_error", "undecodable"}
        /\ Return(c, traceroute_error_result(call[c].host, call[c].arg), <<"mock">>)

\* NetworkAdapter.dns_lookup up to its await of the executor
DnsLookup(c, hostname, record_type) ==
  /\ pc[c] = "idle"
  /\ call' = [call EXCEPT ![c] =
                [op |-> "dns_lookup", host |-> hostname, arg |-> record_type]]
  /\ UNCHANGED <<mock_mode, settings, http, svc>>
  /\ LET e == entry(hostname, mock_mode)
     IN  \/ /\ e[Len(e)] = "raise"
            /\ Raise(c, InvalidHost, SubSeq(e, 1, Len(e) - 1))
            /\ UNCHANGED ext
         \/ /\ e[Len(e)] = "mock"
            /\ Return(c, mock_dns_lookup(hostname, record_type), e)
            /\ UNCHANGED ext
         \/ /\ e[Len(e)] = "real"
            /\ pc' = [pc EXCEPT ![c] = "resolving"]
            /\ events' = [events EXCEPT ![c] = SubSeq(e, 1, Len(e) - 1) \o <<"resolve">>]
            /\ ext' = [ext EXCEPT ![c] =
                         [kind |-> "queued", family |-> dns_family(record_type)]]
            /\ UNCHANGED <<result, exc, obj>>

\* the calls whose getaddrinfo occupies a worker thread of the executor
Workers == {c \in DOMAIN pc : pc[c] = "resolving" /\ ext[c].kind \in {"running", "hung"}}

\* run_in_executor(None, ...): a free worker thread of the default executor
\* takes the queued getaddrinfo
DnsRun(c) ==
  /\ pc[c] = "resolving"
  /\ ext[c].kind = "queued"
  /\ Cardinality(Workers) < PoolSize
  /\ ext' = [ext EXCEPT ![c] = [@ EXCEPT !.kind = "running"]]
  /\ UNCHANGED <<mock_mode, pc, call, result, exc, events, obj, settings, http, svc>>

\* socket.getaddrinfo never answers: no timeout bounds it, its worker thread
\* stays busy and the call stays suspended
DnsHang(c) ==
  /\ pc[c] = "resolving"
  /\ ext[c].kind = "running"
  /\ ~EmptyLabel(call[c].host)
  /\ ext' = [ext EXCEPT ![c] = [@ EXCEPT !.kind = "hung"]]
  /\ UNCHANGED <<mock_mode, pc, call, result, exc, events, obj, settings, http, svc>>

\* dns_lookup: the executor finishes socket.getaddrinfo
DnsResolved(c, o) ==
  /\ pc[c] = "resolving"
  /\ ext[c].kind = "running"
  /\ o \in ResolverOutcomes(call[c].host, ext[c].family)
  /\ ext' = [ext EXCEPT ![c] = [o EXCEPT !.kind = o.kind] @@ [family |-> ext[c].family]]
  /\ UNCHANGED <<mock_mode, call, settings, http, svc>>
  /\ \/ /\ o.kind = "ok"
        /\ Return(c, [hostname |-> call[c].host,
                      record_type |-> call[c].arg,
                      addresses |-> dns_addresses(o.infos)], <<>>)
     \/ /\ o.kind # "ok"
        /\ o.kind \in dns_caught
        /\ Return(c, dns_error_result(call[c].host, call[c].arg), <<"error">>)
     \/ /\ o.kind # "ok"
        /\ o.kind \notin dns_caught
        /\ Raise(c, "UnicodeError", <<>>)

\* the caller has taken the result or the exception; the call is over
Finish(c) ==
  /\ pc[c] \in {"returned", "raised"}
  /\ pc' = [pc EXCEPT ![c] = "idle"]
  /\ call' = [call EXCEPT ![c] = NoCall]
  /\ ext' = [ext EXCEPT ![c] = NoExt]
  /\ result' = [result EXCEPT ![c] = NoResult]
  /\ exc' = [exc EXCEPT ![c] = NoExc]
  /\ events' = [events EXCEPT ![c] = <<>>]
  /\ obj' = [obj EXCEPT ![c] = NoObj]
  /\ UNCHANGED <<mock_mode, settings, http, svc>>

AllResolverOutcomes ==
  UNION {ResolverOutcomes(h, f) : h \in {<<"a">>, <<".">>}, f \in {AF_INET, AF_INET6}}

Next ==
  \E c \in DOMAIN pc :
    \/ \E host \in Hosts, count \in Counts : Ping(c, host, count)
    \/ \E o \in PingOutcomes : PingCommunicate(c, o)
    \/ \E host \in Hosts, max_hops \in MaxHopsArgs : Traceroute(c, host, max_hops)
    \/ \E o \in TracerouteOutcomes : TracerouteCommunicate(c, o)
    \/ \E hostname \in Hosts, record_type \in RecordTypes :
         DnsLookup(c, hostname, record_type)
    \/ DnsRun(c)
    \/ DnsHang(c)
    \/ \E o \in AllResolverOutcomes : DnsResolved(c, o)
    \/ Finish(c)

Spec == Init /\ [][Next]_vars

\* the arguments and the answers tried when several calls run at once
ConcHosts == {<<"a">>, <<";">>}

ConcPingOutcomes ==
  {o \in PingOutcomes :
     o.kind = "exited" =>
       /\ o.rc = 0 /\ o.header
       /\ o.stats.present /\ o.stats.packets_word /\ ~o.stats.errors
       /\ o.rtt.present /\ ~o.rtt.bsd /\ o.rtt.min = 890}

ConcTracerouteOutcomes ==
  {o \in TracerouteOutcomes :
     o.kind = "exited" => (o.rc = 0 /\ o.header /\ Len(o.body) = 1)}

ConcResolverOutcomes ==
  {o \in AllResolverOutcomes : o.kind = "ok" => Len(o.infos) = 1}

\* the steps of the calls one adapter serves concurrently
NextConc ==
  \E c \in DOMAIN pc :
    \/ \E host \in ConcHosts, count \in Counts : Ping(c, host, count)
    \/ \E o \in ConcPingOutcomes : PingCommunicate(c, o)
    \/ \E host \in ConcHosts, max_hops \in MaxHopsArgs : Traceroute(c, host, max_hops)
    \/ \E o \in ConcTracerouteOutcomes : TracerouteCommunicate(c, o)
    \/ \E hostname \in ConcHosts, record_type \in RecordTypes :
         DnsLookup(c, hostname, record_type)
    \/ DnsRun(c)
    \/ DnsHang(c)
    \/ \E o \in ConcResolverOutcomes : DnsResolved(c, o)
    \/ Finish(c)

SpecConc == InitConc /\ [][NextConc]_vars

\* the step that ends the await of the child of call c: the child's output
\* arrives or the timer of wait_for fires
Communicate(c) ==
  \/ \E o \in ConcPingOutcomes : PingCommunicate(c, o)
  \/ \E o \in ConcTracerouteOutcomes : TracerouteCommunicate(c, o)

\* the event loop runs every callback that is due, the timer of wait_for
\* included: no await of a child stays pending while it could end
SpecLive == SpecConc /\ \A c \in ConcCallIds : WF_vars(Communicate(c))

\* ------------------------------------------------------------------------
\* The HTTP routes and the API key
\* ------------------------------------------------------------------------

\* the routes of the router: the path by segments, whether the handler
\* declares Depends(require_admin_key), whether FastAPI validates parameters
\* for it, and the adapters the handler calls
Endpoints ==
  {[path |-> <<"health">>, auth |-> FALSE, params |-> FALSE, adapters |-> {}],
   [path |-> <<"metrics">>, auth |-> FALSE, params |-> FALSE, adapters |-> {}],
   [path |-> <<"v1", "status">>, auth |-> TRUE, params |-> FALSE,
    adapters |-> {"docker", "emby", "crowdsec"}],
   [path |-> <<"v1", "docker", "containers">>, auth |-> TRUE, params |-> FALSE,
    adapters |-> {"docker"}],
   [path |-> <<"v1", "docker", "containers", "{container_id}", "stats">>,
    auth |-> TRUE, params |-> TRUE, adapters |-> {"docker"}],
   [path |-> <<"v1", "emby", "sessions">>, auth |-> TRUE, params |-> FALSE,
    adapters |-> {"emby"}],
   [path |-> <<"v1", "emby", "search">>, auth |-> TRUE, params |-> TRUE,
    adapters |-> {"emby"}],
   [path |-> <<"v1", "crowdsec", "decisions">>, auth |-> TRUE, params |-> FALSE,
    adapters |-> {"crowdsec"}],
   [path |-> <<"v1", "crowdsec", "bouncers">>, auth |-> TRUE, params |-> FALSE,
    adapters |-> {"crowdsec"}],
   [path |-> <<"v1", "crowdsec", "alerts">>, auth |-> TRUE, params |-> TRUE,
    adapters |-> {"crowdsec"}],
   [path |-> <<"v1", "network", "ping">>, auth |-> TRUE, params |-> TRUE,
    adapters |-> {"network"}],
   [path |-> <<"v1", "network", "dns">>, auth |-> TRUE, params |-> TRUE,
    adapters |-> {"network"}],
   [path |-> <<"v1", "network", "traceroute">>, auth |-> TRUE, params |-> TRUE,
    adapters |-> {"network"}],
   [path |-> <<"v1", "actions", "execute">>, auth |-> TRUE, params |-> TRUE,
    adapters |-> {}]}

\* the X-API-Key header of a request: missing, or present with a value
NoKey == [present |-> FALSE]

ApiKeys ==
  {NoKey} \cup {[present |-> TRUE, value |-> v] :
                  v \in {"changeme", "test-key", "wrong", ""}}

\* the values MCP_ADMIN_KEY is configured with
AdminKeys == {"changeme", "test-key"}

\* a check that only compares a key that was sent
require_admin_key_sent(api_key, admin) ==
  IF api_key.present /\ api_key.value # admin THEN "HTTPException(403)" ELSE "ok"

\* require_admin_key: raise 403 if api_key is None or differs from the
\* configured key, return the key otherwise
require_admin_key(api_key, admin) ==
  IF ~api_key.present \/ api_key.value # admin THEN "HTTPException(403)" ELSE "ok"

\* how a request that reached its handler can be answered: the parameters
\* fail validation (422, handler not run), the handler answers, or it raises
HandlerAnswers(ep) ==
  IF ~ep.auth THEN {[status |-> 200, invoked |-> ep.adapters]}
  ELSE {[status |-> s, invoked |-> ep.adapters] : s \in {200, 400, 500}}
       \cup (IF ep.params THEN {[status |-> 422, invoked |-> {}]} ELSE {})

\* the application as the routes module builds it: the network adapter in
\* real mode, the admin key from the environment
InitHttp ==
  /\ mock_mode = FALSE
  /\ pc = [c \in CallIds |-> "idle"]
  /\ call = [c \in CallIds |-> NoCall]
  /\ ext = [c \in CallIds |-> NoExt]
  /\ result = [c \in CallIds |-> NoResult]
  /\ exc = [c \in CallIds |-> NoExc]
  /\ events = [c \in CallIds |-> <<>>]
  /\ obj = [c \in CallIds |-> NoObj]
  /\ settings \in {[DefaultSettings EXCEPT !.MCP_ADMIN_KEY = k] : k \in AdminKeys}
  /\ http = NoRequest
  /\ svc = NoSvc

\* one request served: the dependency require_admin_key runs before the
\* handler of a route that declares it; the handler runs only if it passed
HttpRequest(ep, api_key, a) ==
  /\ a \in HandlerAnswers(ep)
  /\ IF ep.auth /\ require_admin_key(api_key, settings.MCP_ADMIN_KEY) # "ok"
     THEN http' = [path |-> ep.path, key |-> api_key, status |-> 403, invoked |-> {}]
     ELSE http' = [path |-> ep.path, key |-> api_key, status |-> a.status,
                   invoked |-> a.invoked]
  /\ UNCHANGED <<mock_mode, pc, call, ext, result, exc, events, obj, settings, svc>>

\* the tools registered with @mcp.tool(): the adapter singleton and the
\* method each one awaits first
McpTools ==
  {[name |-> "docker_list_containers", adapter |-> "docker", method |-> "list_containers"],
   [name |-> "docker_restart_container", adapter |-> "docker", method |-> "restart_container"],
   [name |-> "docker_get_logs", adapter |-> "docker", method |-> "get_logs"],
   [name |-> "docker_get_stats", adapter |-> "docker", method |-> "list_containers"],
   [name |-> "emby_get_sessions", adapter |-> "emby", method |-> "get_active_sessions"],
   [name |-> "emby_search_library", adapter |-> "emby", method |-> "search_media"],
   [name |-> "emby_scan_library", adapter |-> "emby", method |-> "scan_library"]}

\* the methods the adapter classes define
AdapterMethods(adapter) ==
  IF adapter = "docker"
  THEN {"list_containers", "restart_container", "get_logs", "container_stats"}
  ELSE IF adapter = "emby" THEN {"get_active_sessions", "search_media", "close"}
  ELSE {}

\* the "status" key of what a method returns, None when it has none
method_status(method) ==
  IF method = "restart_container" THEN "restarted" ELSE "None"

\* a tool body: await the adapter method, json.dumps what it returned; an
\* attribute the adapter does not have raises AttributeError
tool_call(tool) ==
  IF tool.method \in AdapterMethods(tool.adapter)
  THEN [error |-> "none", invoked |-> {tool.adapter},
        result |-> [status |-> method_status(tool.method)]]
  ELSE [error |-> "AttributeError", invoked |-> {}, result |-> [status |-> "None"]]

\* app.mount("/mcp", mcp.sse_app()): the mounted application is the SDK's SSE
\* application as it is; no middleware or dependency reads X-API-Key
mcp_key_check(api_key, admin) == "ok"

\* one tool call sent over the SSE transport mounted under /mcp
McpRequest(api_key, tool) ==
  /\ IF mcp_key_check(api_key, settings.MCP_ADMIN_KEY) # "ok"
     THEN http' = [path |-> <<"mcp", "messages">>, key |-> api_key, status |-> 403,
                   invoked |-> {}, tool |-> tool.name, ran |-> FALSE,
                   error |-> "none", result |-> [status |-> "None"]]
     ELSE LET r == tool_call(tool)
          IN  http' = [path |-> <<"mcp", "messages">>, key |-> api_key, status |-> 202,
                       invoked |-> r.invoked, tool |-> tool.name, ran |-> TRUE,
                       error |-> r.error, result |-> r.result]
  /\ UNCHANGED <<mock_mode, pc, call, ext, result, exc, events, obj, settings, svc>>

NextHttp ==
  \/ \E ep \in Endpoints, api_key \in ApiKeys :
       \E a \in HandlerAnswers(ep) : HttpRequest(ep, api_key, a)
  \/ \E api_key \in ApiKeys, tool \in McpTools : McpRequest(api_key, tool)

SpecHttp == InitHttp /\ [][NextHttp]_vars

\* ------------------------------------------------------------------------
\* The Emby and CrowdSec adapters and the service status
\* ------------------------------------------------------------------------

\* the read operations of the two adapters
ReadOps ==
  {[adapter |-> "emby", op |-> "get_active_sessions"],
   [adapter |-> "emby", op |-> "search_media"],
   [adapter |-> "crowdsec", op |-> "get_decisions"],
   [adapter |-> "crowdsec", op |-> "get_bouncers"],
   [adapter |-> "crowdsec", op |-> "get_alerts"]}

\* what a backend can do with a request: answer 200 with a JSON array, a
\* JSON object, JSON null or a body that is not JSON, answer with an error
\* status, be unreachable, or answer too late
BackendAnswers ==
  {"json_list", "json_object", "json_null", "not_json",
   "http_error", "request_error", "slow"}

\* the values tried for a URL or key setting
SettingValues ==
  {Unset, [present |-> TRUE, value |-> ""], [present |-> TRUE, value |-> "set"]}

\* base_url and api_key the adapter singletons were built with
base_url_of(adapter, s) == IF adapter = "emby" THEN s.EMBY_URL ELSE s.CROWDSEC_URL

api_key_of(adapter, s) ==
  IF adapter = "emby" THEN s.EMBY_API_KEY ELSE s.CROWDSEC_API_KEY

\* the value a read operation builds from the decoded body:
\*   get_active_sessions, get_bouncers, get_alerts: return resp.json()
\*   search_media: data.get("Items", [])
\*   get_decisions: data if data else []
decoded(op, b) ==
  IF op = "search_media"
  THEN IF b = "json_object"
       THEN [kind |-> "returned", data |-> "backend", is_list |-> TRUE]
       ELSE [kind |-> "raised", exc |-> "AttributeError"]
  ELSE IF op = "get_decisions" /\ b = "json_null"
  THEN [kind |-> "returned", data |-> "empty", is_list |-> TRUE]
  ELSE [kind |-> "returned", data |-> "backend", is_list |-> b = "json_list"]

\* a read operation of EmbyAdapter or CrowdSecAdapter: one GET when base_url
\* and api_key are both truthy; HTTPStatusError and RequestError (timeouts
\* included) are logged and the mock data returned; anything else raised by
\* resp.json() or by the use of its value propagates
read_op(r, s, b) ==
  IF Truthy(base_url_of(r.adapter, s)) /\ Truthy(api_key_of(r.adapter, s))
  THEN IF b \in {"http_error", "request_error", "slow"}
       THEN [kind |-> "returned", data |-> "mock", is_list |-> TRUE, requests |-> 1]
       ELSE IF b = "not_json"
       THEN [kind |-> "raised", exc |-> "JSONDecodeError", requests |-> 1]
       ELSE decoded(r.op, b) @@ [requests |-> 1]
  ELSE [kind |-> "returned", data |-> "mock", is_list |-> TRUE, requests |-> 0]

\* _check_adapter: the probe under wait_for(timeout=5.0), shorter than the
\* 10 s timeout of the adapter's client: a backend that answers too late
\* ends the probe by TimeoutError, a probe that raises is down, a probe that
\* returns is up
check_adapter(r, s, b) ==
  LET p == read_op(r, s, b)
  IN  IF p.requests > 0 /\ b = "slow" THEN [status |-> "down", error |-> "timeout"]
      ELSE IF p.kind = "returned" THEN [status |-> "up"]
      ELSE [status |-> "down", error |-> p.exc]

\* the checks of service_status: docker always probed (its adapter returns
\* mock data), emby and crowdsec probed when their URL is truthy
status_checks(s, be, bc) ==
  [docker |-> [status |-> "up"],
   emby |-> IF Truthy(s.EMBY_URL)
            THEN check_adapter([adapter |-> "emby", op |-> "get_active_sessions"], s, be)
            ELSE [status |-> "unconfigured"],
   crowdsec |-> IF Truthy(s.CROWDSEC_URL)
                THEN check_adapter([adapter |-> "crowdsec", op |-> "get_decisions"], s, bc)
                ELSE [status |-> "unconfigured"]]

\* overall: healthy / degraded / unhealthy
overall_of(checks) ==
  IF \A k \in DOMAIN checks : checks[k].status \in {"up", "unconfigured"}
  THEN "healthy"
  ELSE IF \E k \in DOMAIN checks : checks[k].status = "up" THEN "degraded"
  ELSE "unhealthy"

\* the application with any configuration of the two backends
InitSvc ==
  /\ mock_mode = FALSE
  /\ pc = [c \in CallIds |-> "idle"]
  /\ call = [c \in CallIds |-> NoCall]
  /\ ext = [c \in CallIds |-> NoExt]
  /\ result = [c \in CallIds |-> NoResult]
  /\ exc = [c \in CallIds |-> NoExc]
  /\ events = [c \in CallIds |-> <<>>]
  /\ obj = [c \in CallIds |-> NoObj]
  /\ settings \in {[DefaultSettings EXCEPT !.EMBY_URL = eu, !.EMBY_API_KEY = ek,
                                           !.CROWDSEC_URL = cu, !.CROWDSEC_API_KEY = ck] :
                     eu \in SettingValues, ek \in SettingValues,
                     cu \in SettingValues, ck \in SettingValues}
  /\ http = NoRequest
  /\ svc = NoSvc

\* one read operation of an adapter, from call to return or raise
ReadOp(r, b) ==
  /\ svc' = [op |-> r.op, adapter |-> r.adapter, backend |-> b,
             out |-> read_op(r, settings, b)]
  /\ UNCHANGED <<mock_mode, pc, call, ext, result, exc, events, obj, settings, http>>

\* GET /v1/status with a valid key: the handler from the probes to the answer
ServiceStatus(be, bc) ==
  /\ LET checks == status_checks(settings, be, bc)
     IN  svc' = [op |-> "status", backend |-> [emby |-> be, crowdsec |-> bc],
                 services |-> checks, overall |-> overall_of(checks)]
  /\ UNCHANGED <<mock_mode, pc, call, ext, result, exc, events, obj, settings, http>>

NextSvc ==
  \/ \E r \in ReadOps, b \in BackendAnswers : ReadOp(r, b)
  \/ \E be \in BackendAnswers, bc \in BackendAnswers : ServiceStatus(be, bc)

SpecSvc == InitSvc /\ [][NextSvc]_vars

\* ------------------------------------------------------------------------
\* Properties
\* ------------------------------------------------------------------------
Started(c) == call[c] # NoCall

Returned(c, op) == pc[c] = "returned" /\ call[c].op = op

\* the child of a call of op exited and its output was read
Exited(c, op) == Returned(c, op) /\ ext[c].kind = "exited"

\* the shell metacharacters of the tests (the backquote has no TLA+ string)
ShellMeta == {";", "|", "$", " "}

HasShellMeta(host) == \E i \in 1..Len(host) : host[i] \in ShellMeta

\* C1: for ping, dns_lookup and traceroute, in mock mode and in real mode,
\* validation is the first thing a call does, and a call whose host is
\* rejected (in particular one with a shell metacharacter) raises the
\* invalid-host error having spawned no process, called no resolver and
\* produced no mock result.
C1_ValidationFirst ==
  \A c \in DOMAIN pc :
    /\ (Started(c) /\ events[c] # <<>>) => events[c][1] = "validate"
    /\ (Started(c) /\ (~validate_host(call[c].host) \/ HasShellMeta(call[c].host)))
         => /\ pc[c] = "raised"
            /\ exc[c] = InvalidHost
            /\ result[c] = NoResult
            /\ ext[c] = NoExt
            /\ \A i \in 1..Len(events[c]) : events[c][i] \notin {"spawn", "resolve", "mock"}

C1_Witness ==
  \E c \in DOMAIN pc :
    /\ mock_mode
    /\ call[c].op = "traceroute"
    /\ HasShellMeta(call[c].host)
    /\ pc[c] = "raised"

\* the hosts the documentation of _validate_host allows
AllowedHost(host) ==
  Len(host) > 0 /\ \A i \in 1..Len(host) : host[i] \in HostClass

\* C2: validation succeeds exactly for the non-empty strings made of ASCII
\* letters, digits, '.', '_' and '-'; every other string, one that ends in a
\* newline included, is rejected with the invalid-host error.
C2_ValidateIffAllowed ==
  \A c \in DOMAIN pc :
    Started(c) => ((exc[c] # InvalidHost) <=> AllowedHost(call[c].host))

ResultFields(op) ==
  IF op = "ping"
  THEN {"host", "packets_sent", "packets_received", "packet_loss_percent",
        "avg_latency_ms", "min_latency_ms", "max_latency_ms"}
  ELSE IF op = "dns_lookup" THEN {"hostname", "record_type", "addresses"}
  ELSE {"host", "max_hops", "hops"}

\* C3: whatever the external tool or the resolver does, a call either raises
\* the invalid-host error or returns a result with all fields of its type;
\* no other exception reaches the caller.
C3_NoOtherException ==
  \A c \in DOMAIN pc :
    /\ pc[c] = "raised" => exc[c] = InvalidHost
    /\ pc[c] = "returned" => ResultFields(call[c].op) \subseteq DOMAIN result[c]

\* C4: when the ping utility exceeds the timeout, ping does not raise and
\* returns host, packets_sent = count, packets_received = 0, 100% loss and
\* zero latencies, never the mock data.
C4_PingTimeout ==
  \A c \in DOMAIN pc :
    (Started(c) /\ call[c].op = "ping" /\ ext[c].kind = "timeout")
      => /\ pc[c] = "returned"
         /\ result[c] = [host |-> call[c].host,
                         packets_sent |-> call[c].arg,
                         packets_received |-> 0,
                         packet_loss_percent |-> 100 * Scale,
                         avg_latency_ms |-> 0,
                         min_latency_ms |-> 0,
                         max_latency_ms |-> 0]
         /\ \A i \in 1..Len(events[c]) : events[c][i] # "mock"

C4_Witness ==
  \E c \in DOMAIN pc :
    Returned(c, "ping") /\ ext[c].kind = "timeout" /\ call[c].arg = 4

\* C5: when spawning the utility or reading from it fails with anything but
\* a timeout, ping returns exactly the mock ping result for host and count
\* and traceroute exactly the mock traceroute result for host and max_hops,
\* without raising.
C5_FailureFallsBackToMock ==
  \A c \in DOMAIN pc :
    (Started(c) /\ ext[c].kind \in {"spawn_failed", "read_error"})
      => /\ pc[c] = "returned"
         /\ call[c].op = "ping" =>
              result[c] = [host |-> call[c].host,
                           packets_sent |-> call[c].arg,
                           packets_received |-> call[c].arg,
                           packet_loss_percent |-> 0,
                           avg_latency_ms |-> 1230,
                           min_latency_ms |-> 890,
                           max_latency_ms |-> 2150]
         /\ call[c].op = "traceroute" =>
              /\ result[c].host = call[c].host
              /\ result[c].max_hops = call[c].arg
              /\ DOMAIN result[c] = {"host", "max_hops", "hops"}
              /\ Len(result[c].hops) = 3
              /\ \A i \in 1..3 : result[c].hops[i].hop = i
              /\ result[c].hops[3].ip = call[c].host
              /\ result[c] = mock_traceroute(call[c].host, call[c].arg)

C5_Witness ==
  \E c \in DOMAIN pc :
    Returned(c, "ping") /\ ext[c].kind = "spawn_failed"

\* the ping output matches neither pattern
PingUnmatched(o) == ~o.stats.present /\ ~o.rtt.present

\* the lines of a traceroute output the parser looks at: all but the first
ParsedBody(o) == IF o.header THEN o.body
                 ELSE IF Len(o.body) = 0 THEN <<>> ELSE Tail(o.body)

\* no line the parser looks at is a hop line
TracerouteUnmatched(o) ==
  \A i \in 1..Len(ParsedBody(o)) : ParsedBody(o)[i].kind = "junk"

\* C6 as stated: when the ping or traceroute utility exits with a non-zero
\* status or prints output matching none of the patterns, the call returns
\* the mock data for its arguments.
C6_ExitFailureFallsBackToMock ==
  \A c \in DOMAIN pc :
    /\ (Exited(c, "ping") /\ (ext[c].rc # 0 \/ PingUnmatched(ext[c])))
         => result[c] = mock_ping(call[c].host, call[c].arg)
    /\ (Exited(c, "traceroute") /\ (ext[c].rc # 0 \/ TracerouteUnmatched(ext[c])))
         => result[c] = mock_traceroute(call[c].host, call[c].arg)

\* the statistics fields of a ping result are those the utility printed
StatsFilled(r, st) ==
  /\ r.packets_sent = st.sent
  /\ r.packets_received = st.recv
  /\ r.packet_loss_percent = st.loss

\* the latency fields of a ping result are those the utility printed
RttFilled(r, rt) ==
  /\ r.min_latency_ms = rt.min
  /\ r.avg_latency_ms = rt.avg
  /\ r.max_latency_ms = rt.max

\* C6 amended: the exit status is not examined and unmatched output is no
\* failure.  A ping whose output matches neither pattern returns host,
\* packets_sent = count, packets_received = 0, 100% loss and zero latencies;
\* a traceroute none of whose lines after the first is a hop line returns an
\* empty hops list and no error field; with a non-zero exit status the
\* printed statistics, round trip times and hops are still reported.
C6_ExitedResultIsParsed ==
  \A c \in DOMAIN pc :
    /\ (Exited(c, "ping") /\ PingUnmatched(ext[c]))
         => result[c] = [host |-> call[c].host,
                         packets_sent |-> call[c].arg,
                         packets_received |-> 0,
                         packet_loss_percent |-> 100 * Scale,
                         avg_latency_ms |-> 0,
                         min_latency_ms |-> 0,
                         max_latency_ms |-> 0]
    /\ (Exited(c, "ping") /\ ext[c].rc # 0 /\ ext[c].stats.present)
         => StatsFilled(result[c], ext[c].stats)
    /\ (Exited(c, "ping") /\ ext[c].rc # 0 /\ ext[c].rtt.present)
         => RttFilled(result[c], ext[c].rtt)
    /\ (Exited(c, "traceroute") /\ TracerouteUnmatched(ext[c]))
         => result[c] = [host |-> call[c].host, max_hops |-> call[c].arg, hops |-> <<>>]
    /\ (Exited(c, "traceroute") /\ ext[c].rc # 0)
         => /\ DOMAIN result[c] = {"host", "max_hops", "hops"}
            /\ Len(result[c].hops)
                 = Cardinality({i \in 1..Len(ParsedBody(ext[c])) :
                                  ParsedBody(ext[c])[i].kind # "junk"})

C6_Witness ==
  \E c \in DOMAIN pc :
    /\ Exited(c, "ping")
    /\ ext[c].rc # 0
    /\ ext[c].stats.present
    /\ ext[c].stats.recv = 0
    /\ result[c] # mock_ping(call[c].host, call[c].arg)

\* C7: a hop line '<N>  <name> (<ip>)  <L> ms' after the header line yields
\* the hop {hop: N, ip: <ip>, latency_ms: L}.
C7_HopLatencyCaptured ==
  \A c \in DOMAIN pc :
    (Exited(c, "traceroute") /\ ext[c].header)
      => \A i \in 1..Len(ext[c].body) :
           ext[c].body[i].kind = "addr"
             => \E k \in 1..Len(result[c].hops) :
                  result[c].hops[k] = [hop |-> ext[c].body[i].hop,
                                       ip |-> ext[c].body[i].ip,
                                       latency_ms |-> ext[c].body[i].latency]

\* C8: a ping output with the statistics line (either 'received' variant)
\* and the rtt line yields packets_sent = S, packets_received = R,
\* packet_loss_percent = L, min = a, avg = b, max = c, whatever count is.
C8_PingParsed ==
  \A c \in DOMAIN pc :
    (Exited(c, "ping") /\ ext[c].stats.present /\ ext[c].rtt.present)
      => /\ StatsFilled(result[c], ext[c].stats)
         /\ RttFilled(result[c], ext[c].rtt)
         /\ result[c].host = call[c].host

C8_Witness ==
  \E c \in DOMAIN pc :
    /\ Exited(c, "ping")
    /\ ext[c].stats.present /\ ext[c].stats.packets_word
    /\ ext[c].rtt.present
    /\ ext[c].stats.sent # call[c].arg
    /\ result[c].packets_sent = 8
    /\ result[c].packet_loss_percent = 12500

\* C9 as stated: the fields of a missing pattern are all zero in the result,
\* the fields of the pattern that is present are filled.
C9_MissingPatternZero ==
  \A c \in DOMAIN pc :
    Exited(c, "ping")
      => /\ ~ext[c].stats.present
              => /\ result[c].packets_sent = 0
                 /\ result[c].packets_received = 0
                 /\ result[c].packet_loss_percent = 0
         /\ ~ext[c].rtt.present
              => /\ result[c].min_latency_ms = 0
                 /\ result[c].avg_latency_ms = 0
                 /\ result[c].max_latency_ms = 0
         /\ ext[c].stats.present => StatsFilled(result[c], ext[c].stats)
         /\ ext[c].rtt.present => RttFilled(result[c], ext[c].rtt)

\* C9 amended: the fields of a missing pattern keep their defaults, which
\* are packets_sent = count, packets_received = 0 and packet_loss_percent =
\* 100.0 for the statistics pattern and 0.0 for the three latencies; the
\* fields of the pattern that is present are filled.
C9_MissingPatternDefaults ==
  \A c \in DOMAIN pc :
    Exited(c, "ping")
      => /\ ~ext[c].stats.present
              => /\ result[c].packets_sent = call[c].arg
                 /\ result[c].packets_received = 0
                 /\ result[c].packet_loss_percent = 100 * Scale
         /\ ~ext[c].rtt.present
              => /\ result[c].min_latency_ms = 0
                 /\ result[c].avg_latency_ms = 0
                 /\ result[c].max_latency_ms = 0
         /\ ext[c].stats.present => StatsFilled(result[c], ext[c].stats)
         /\ ext[c].rtt.present => RttFilled(result[c], ext[c].rtt)

C9_Witness ==
  \E c \in DOMAIN pc :
    /\ Exited(c, "ping")
    /\ ~ext[c].stats.present
    /\ ext[c].rtt.present
    /\ result[c].avg_latency_ms = 20500

\* C10: when resolution fails in real mode, whatever the kind of failure,
\* dns_lookup does not raise and returns hostname and record_type as given,
\* an empty addresses list and an error field.
C10_DnsFailureReturnsError ==
  \A c \in DOMAIN pc :
    (Started(c) /\ call[c].op = "dns_lookup"
       /\ ext[c].kind \in {"gaierror", "unicode_error"})
      => /\ pc[c] = "returned"
         /\ result[c].hostname = call[c].host
         /\ result[c].record_type = call[c].arg
         /\ result[c].addresses = <<>>
         /\ "error" \in DOMAIN result[c]

\* C11: when the traceroute utility exceeds the timeout, traceroute does not
\* raise and returns host, max_hops, an empty hops list and error = 'timeout',
\* never the mock hops.
C11_TracerouteTimeout ==
  \A c \in DOMAIN pc :
    (Started(c) /\ call[c].op = "traceroute" /\ ext[c].kind = "timeout")
      => /\ pc[c] = "returned"
         /\ result[c] = [host |-> call[c].host,
                         max_hops |-> call[c].arg,
                         hops |-> <<>>,
                         error |-> "timeout"]
         /\ \A i \in 1..Len(events[c]) : events[c][i] # "mock"

C11_Witness ==
  \E c \in DOMAIN pc :
    Returned(c, "traceroute") /\ ext[c].kind = "timeout" /\ call[c].arg = 20

\* the child of call c is alive and its transport is still held by the adapter
ChildAttached(c) == ext[c].kind = "timeout" /\ ext[c].child \in ChildKinds

\* C12: when a ping or traceroute call has ended by timeout, its child has
\* been terminated or detached by the time the call returns: no returned call
\* leaves a child that is still running and attached to the adapter.
C12_NoChildLeftAfterTimeout ==
  \A c \in DOMAIN pc :
    (pc[c] = "returned" /\ call[c].op \in {"ping", "traceroute"})
      => ~ChildAttached(c)

\* call c waits for a worker thread while every worker runs a getaddrinfo
\* that never answers
Stalled(c) ==
  /\ pc[c] = "resolving"
  /\ ext[c].kind = "queued"
  /\ Cardinality(Workers) >= PoolSize
  /\ \A w \in Workers : ext[w].kind = "hung"

\* C13: a dns_lookup whose resolver never answers prevents no other
\* concurrent probe from making progress, however many lookups hang at once:
\* no call is ever left waiting behind hanging lookups.
C13_HangingLookupStallsNoProbe ==
  \A c \in DOMAIN pc : ~Stalled(c)

\* what a ping or traceroute call returns when the timeout fires
TimeoutResult(cl) ==
  IF cl.op = "ping" THEN ping_timeout_result(cl.host, cl.arg)
  ELSE traceroute_timeout_result(cl.host, cl.arg)

Count(c, x) == Cardinality({i \in 1..Len(events[c]) : events[c][i] = x})

\* C15: each call of ping or traceroute spawns at most one process and each
\* dns_lookup calls the resolver at most once, also after a failure or a
\* timeout; ping and traceroute never call the resolver, dns_lookup never
\* spawns; in mock mode nothing is spawned and the resolver is not called.
C15_AtMostOneAttempt ==
  \A c \in DOMAIN pc :
    Started(c) =>
      /\ Count(c, "spawn") + Count(c, "resolve") <= 1
      /\ call[c].op = "dns_lookup" => Count(c, "spawn") = 0
      /\ call[c].op \in {"ping", "traceroute"} => Count(c, "resolve") = 0
      /\ mock_mode => Count(c, "spawn") + Count(c, "resolve") = 0

C15_Witness ==
  \E c \in DOMAIN pc :
    /\ pc[c] = "returned"
    /\ ext[c].kind \in {"timeout", "read_error", "spawn_failed", "gaierror"}
    /\ Count(c, "spawn") + Count(c, "resolve") = 1

\* C16: in real mode the addresses list of dns_lookup holds every distinct
\* address the resolver returned, each exactly once, in strictly increasing
\* lexicographic string order.
C16_AddressesSortedDistinct ==
  \A c \in DOMAIN pc :
    (Returned(c, "dns_lookup") /\ ext[c].kind = "ok")
      => LET a == result[c].addresses
             infos == ext[c].infos
         IN  /\ {a[i] : i \in 1..Len(a)} = {infos[i] : i \in 1..Len(infos)}
             /\ \A i \in 1..Len(a), j \in 1..Len(a) : i < j => StrLess(a[i], a[j])

C16_Witness ==
  \E c \in DOMAIN pc :
    /\ Returned(c, "dns_lookup")
    /\ ext[c].kind = "ok"
    /\ Len(ext[c].infos) = 2
    /\ StrLess(ext[c].infos[2], ext[c].infos[1])
    /\ result[c].addresses = <<ext[c].infos[2], ext[c].infos[1]>>

\* C17: in mock mode, for every valid host and every count N, ping returns
\* host = host, packets_sent = packets_received = N, packet_loss_percent = 0.0
\* and the latencies avg 1.23, min 0.89, max 2.15 (in thousandths here).
C17_MockPing ==
  \A c \in DOMAIN pc :
    (mock_mode /\ Started(c) /\ call[c].op = "ping" /\ validate_host(call[c].host))
      => /\ pc[c] = "returned"
         /\ result[c].host = call[c].host
         /\ result[c].packets_sent = call[c].arg
         /\ result[c].packets_received = call[c].arg
         /\ result[c].packet_loss_percent = 0
         /\ result[c].avg_latency_ms = 1230
         /\ result[c].min_latency_ms = 890
         /\ result[c].max_latency_ms = 2150

C17_Witness ==
  \E c \in DOMAIN pc :
    /\ mock_mode
    /\ Returned(c, "ping")
    /\ call[c].arg = 1
    /\ result[c].packets_received = 1

\* C18: in mock mode, for every valid host and every max_hops, traceroute
\* returns exactly 3 hops numbered 1, 2, 3 in that order, each with hop, ip
\* and latency_ms, and the ip of the last hop is the host argument.
C18_MockTraceroute ==
  \A c \in DOMAIN pc :
    (mock_mode /\ Started(c) /\ call[c].op = "traceroute"
       /\ validate_host(call[c].host))
      => /\ pc[c] = "returned"
         /\ Len(result[c].hops) = 3
         /\ \A i \in 1..3 :
              /\ DOMAIN result[c].hops[i] = {"hop", "ip", "latency_ms"}
              /\ result[c].hops[i].hop = i
         /\ result[c].hops[3].ip = call[c].host

C18_Witness ==
  \E c \in DOMAIN pc :
    /\ mock_mode
    /\ Returned(c, "traceroute")
    /\ call[c].host = <<"a", ".">>
    /\ result[c].hops[3].ip = <<"a", ".">>

\* what the call cl returns when it runs alone on an adapter with the mock
\* switch at mock and its child or resolver ends as x
ResultAlone(cl, x, mock) ==
  IF cl.op = "ping" THEN
    IF mock THEN mock_ping(cl.host, cl.arg)
    ELSE IF x.kind = "exited" THEN ping_exited_result(cl.host, cl.arg, x)
    ELSE IF x.kind = "timeout" THEN ping_timeout_result(cl.host, cl.arg)
    ELSE ping_error_result(cl.host, cl.arg)
  ELSE IF cl.op = "traceroute" THEN
    IF mock THEN mock_traceroute(cl.host, cl.arg)
    ELSE IF x.kind = "exited" THEN traceroute_exited_result(cl.host, cl.arg, x)
    ELSE IF x.kind = "timeout" THEN traceroute_timeout_result(cl.host, cl.arg)
    ELSE traceroute_error_result(cl.host, cl.arg)
  ELSE
    IF mock THEN mock_dns_lookup(cl.host, cl.arg)
    ELSE IF x.kind = "ok"
         THEN [hostname |-> cl.host, record_type |-> cl.arg,
               addresses |-> dns_addresses(x.infos)]
    ELSE dns_error_result(cl.host, cl.arg)

\* every returned call has the result of the same call run alone, and no two
\* returned calls hold the same dict
Independent ==
  \A c \in ConcCallIds :
    pc[c] = "returned"
      => /\ result[c] = ResultAlone(call[c], ext[c], mock_mode)
         /\ obj[c] # NoObj
         /\ \A d \in ConcCallIds \ {c} : pc[d] = "returned" => obj[d] # obj[c]

UnderV1(path) == path[1] = "v1"

\* C20: every /v1/ endpoint answers 403 and invokes no adapter when the
\* X-API-Key header is missing or differs from the configured admin key,
\* whereas /health and /metrics answer 200 without any key.
C20_V1NeedsKey ==
  http # NoRequest =>
    /\ (UnderV1(http.path)
          /\ (~http.key.present \/ http.key.value # settings.MCP_ADMIN_KEY))
         => (http.status = 403 /\ http.invoked = {})
    /\ (http.path \in {<<"health">>, <<"metrics">>} /\ ~http.key.present)
         => http.status = 200

C20_Witness ==
  /\ http # NoRequest
  /\ http.path = <<"v1", "network", "ping">>
  /\ ~http.key.present
  /\ http.status = 403
  /\ http.invoked = {}

\* the lines the parser looks at that are hop lines, in order
HopLinesParsed(o) == SelectSeq(ParsedBody(o), LAMBDA l : l.kind # "junk")

\* C24: the hops list of the traceroute parser has exactly one entry for each
\* hop line among the lines after the first line of the trimmed output, in
\* the order of those lines; other lines add no entry and raise no error, and
\* the first line yields no hop even when it is a hop line.
C24_OneHopPerMatchingLine ==
  \A c \in DOMAIN pc :
    (Started(c) /\ call[c].op = "traceroute" /\ ext[c].kind = "exited")
      => /\ pc[c] = "returned"
         /\ Len(result[c].hops) = Len(HopLinesParsed(ext[c]))
         /\ \A i \in 1..Len(result[c].hops) :
              result[c].hops[i].hop = HopLinesParsed(ext[c])[i].hop

C24_Witness ==
  \E c \in DOMAIN pc :
    /\ Exited(c, "traceroute")
    /\ ~ext[c].header
    /\ Len(ext[c].body) = 2
    /\ ext[c].body[1].kind = "addr"
    /\ ext[c].body[2].kind = "star"
    /\ Len(result[c].hops) = 1
    /\ result[c].hops[1].hop = 2

\* C25: a line whose hop position holds only '*' (hop N unreachable) yields
\* the entry {hop: N, ip: '*'} without latency_ms, and an entry has ip '*'
\* exactly when its line gave no address.
C25_StarIffNoAddress ==
  \A c \in DOMAIN pc :
    Exited(c, "traceroute")
      => \A i \in 1..Len(HopLinesParsed(ext[c])) :
           LET l == HopLinesParsed(ext[c])[i]
               h == result[c].hops[i]
           IN  /\ l.kind = "star" => h = [hop |-> l.hop, ip |-> <<"*">>]
               /\ h.ip = <<"*">> <=> l.kind = "star"

\* the family a record type stands for
ImpliedFamily(record_type) == IF record_type = "AAAA" THEN AF_INET6 ELSE AF_INET

\* C26: in real mode dns_lookup resolves with the IPv6 family exactly when
\* record_type is 'AAAA' and with the IPv4 family for every other value; the
\* record_type of the result is the argument unchanged, and every returned
\* address belongs to the family that record_type implies.
C26_FamilyFollowsRecordType ==
  \A c \in DOMAIN pc :
    (Started(c) /\ call[c].op = "dns_lookup" /\ ext[c] # NoExt)
      => /\ ext[c].family = AF_INET6 <=> call[c].arg = "AAAA"
         /\ ext[c].family = AF_INET <=> call[c].arg # "AAAA"
         /\ pc[c] = "returned"
              => /\ result[c].record_type = call[c].arg
                 /\ \A i \in 1..Len(result[c].addresses) :
                      result[c].addresses[i]
                        \in FamilyAddrs(ImpliedFamily(result[c].record_type))

C26_Witness ==
  \E c \in DOMAIN pc :
    /\ Returned(c, "dns_lookup")
    /\ ext[c].kind = "ok"
    /\ call[c].arg = "AAAA"
    /\ ext[c].family = AF_INET6
    /\ result[c].addresses = << <<":",":","1">> >>

C28_HopsWithinMaxHops ==
  \A c \in DOMAIN pc :
    Returned(c, "traceroute")
      => \A i \in 1..Len(result[c].hops) :
           /\ result[c].hops[i].hop >= 1
           /\ result[c].hops[i].hop <= result[c].max_hops

\* the call handed its host argument to the ping or traceroute utility
HostHandedToUtility(c) ==
  /\ call[c].op \in {"ping", "traceroute"}
  /\ Count(c, "spawn") > 0

\* C29: no host accepted by validation begins with '-', so the host given to
\* the ping or traceroute utility as its last argument is never an option.
C29_NoLeadingDash ==
  \A c \in DOMAIN pc :
    /\ (Started(c) /\ validate_host(call[c].host)) => Head(call[c].host) # "-"
    /\ (Started(c) /\ HostHandedToUtility(c)) => Head(call[c].host) # "-"

\* the request went to the MCP transport mounted under /mcp
UnderMcp(path) == path[1] = "mcp"

\* the key of the request is missing or is not the configured admin key
KeyInvalid(key) == ~key.present \/ key.value # settings.MCP_ADMIN_KEY

\* C21: every request to the MCP SSE transport under /mcp passes an X-API-Key
\* check before any tool (docker_restart_container included) runs: a request
\* without a valid key runs no tool.
C21_McpNeedsKey ==
  (http # NoRequest /\ UnderMcp(http.path) /\ KeyInvalid(http.key))
    => (~http.ran /\ http.invoked = {})

\* C22: calling the registered tool emby_scan_library completes without error
\* and returns a JSON object whose status is 'started'.
C22_EmbyScanStarted ==
  (http # NoRequest /\ UnderMcp(http.path) /\ http.ran
     /\ http.tool = "emby_scan_library")
    => (http.error = "none" /\ http.result.status = "started")

\* the adapter has both its base_url and its api_key
Configured(adapter) ==
  Truthy(base_url_of(adapter, settings)) /\ Truthy(api_key_of(adapter, settings))

\* C23: every read operation of the Emby and CrowdSec adapters returns its
\* mock data, having made no HTTP request, when base_url or api_key is absent;
\* when both are set and the request fails it returns the same mock data; so
\* the operation always returns a list and never raises.
C23_ReadOpsNeverRaise ==
  (svc # NoSvc /\ svc.op # "status")
    => /\ ~Configured(svc.adapter)
            => (svc.out.kind = "returned" /\ svc.out.data = "mock"
                /\ svc.out.requests = 0)
       /\ (Configured(svc.adapter)
            /\ svc.backend \in {"http_error", "request_error", "slow"})
            => (svc.out.kind = "returned" /\ svc.out.data = "mock")
       /\ svc.out.kind = "returned"
       /\ svc.out.is_list

\* the backend of service k was asked and answered the probe
Answered(k) ==
  /\ Configured(k)
  /\ svc.backend[k] \in {"json_list", "json_object", "json_null", "not_json"}

\* C30: in /v1/status a service whose URL is configured is 'down' whenever
\* its backend is unreachable or answers with an HTTP error, and 'up' only
\* when the backend answered the probe; overall is 'healthy' only if every
\* service is 'up' or 'unconfigured'.
C30_StatusReflectsBackend ==
  (svc # NoSvc /\ svc.op = "status")
    => /\ \A k \in {"emby", "crowdsec"} :
            /\ (Truthy(base_url_of(k, settings))
                 /\ svc.backend[k] \in {"request_error", "http_error"})
                 => svc.services[k].status = "down"
            /\ svc.services[k].status = "up" => Answered(k)
       /\ svc.overall = "healthy"
            => \A k \in DOMAIN svc.services :
                 svc.services[k].status \in {"up", "unconfigured"}

====
